---------------------------- MODULE Spec2Model ----------------------------
(***************************************************************************)
(* The asynchronous job client call_gumloop of google_auth.py (copied      *)
(* verbatim in calendar_agent.py): one POST that submits a prompt to the   *)
(* remote job runner, then a bounded loop of sleep / GET status / inspect. *)
(* One run of the function is modelled statement by statement; the remote  *)
(* runner is the environment and picks every response.                     *)
(***************************************************************************)
EXTENDS Integers, Sequences, FiniteSets, TLC

(***************************************************************************)
(* JSON values as the client sees them after response.json(): tagged       *)
(* records, so that a null, a string and an object stay distinguishable.   *)
(***************************************************************************)
Null == [k |-> "null"]

Str(s) == [k |-> "str", s |-> s]

Obj(f) == [k |-> "obj", f |-> f]

EmptyObj == Obj(<<>>)

\* Python variable that has not been assigned yet
Unset == [k |-> "unset"]

\* d.get(key, default) on a dict
DictGet(d, key, default) == IF key \in DOMAIN d.f THEN d.f[key] ELSE default

\* "key in d" on a dict
DictHas(d, key) == key \in DOMAIN d.f

(***************************************************************************)
(* Program constants.                                                      *)
(***************************************************************************)
\* faulty variant: a budget of one attempt less
PollBudget_OneLess == 30 - 1

\* faulty variant: a budget of one attempt more
PollBudget_OneMore == 30 + 1

\* for _ in range(30)
PollBudget == 30

\* faulty variant: a longer pause between attempts
PollInterval_Longer == 2 + 1

\* time.sleep(2)
PollInterval == 2

\* return "AI request failed" inside the loop (FAILED / ERROR)
RemoteFailureText == Str("AI request failed")

\* faulty variant: the last return worded differently from the one in the loop
FallThroughText_Other == Str("AI request timed out")

\* return "AI request failed" after the if (no run_id, or budget exhausted)
FallThroughText == Str("AI request failed")

\* default of .get("output", "No response")
NoResponseText == Str("No response")

(***************************************************************************)
(* What the remote runner may answer.                                      *)
(***************************************************************************)
\* exceptions of requests.post / requests.get / response.json()
CallErrors == {"ConnectionError", "JSONDecodeError"}

\* bodies of the submission response
SubmitResponses ==
    { Obj([run_id |-> Str("abc")]),
      Obj([run_id |-> Str("")]),
      Obj([run_id |-> Null]),
      Obj([error |-> Str("bad request")]),
      EmptyObj }

\* values of the "state" field; the last three are not terminal for the client
StateValues == { Str("DONE"), Str("FAILED"), Str("ERROR"),
                 Str("RUNNING"), Str("done"), Null }

\* values of the "outputs" field
OutputsValues ==
    { Obj([output |-> Str("hello")]),
      Obj([output |-> Null]),
      Obj([other |-> Str("x")]),
      EmptyObj,
      Null }

\* bodies of the status response
PollResponses ==
    { Obj([state |-> s]) : s \in StateValues }
    \cup { Obj([state |-> s, outputs |-> o]) : s \in StateValues, o \in OutputsValues }
    \cup { EmptyObj }

\* the "state" field of a status body (null when the field is missing)
StateOf(st) == IF "state" \in DOMAIN st.f THEN st.f["state"] ELSE Null

\* the states after which the remote job makes no further transition
TerminalStates == {Str("DONE"), Str("FAILED"), Str("ERROR")}

VARIABLES
    pc,        \* position of the run in call_gumloop
    result,    \* result = response.json() of the submission
    run_id,    \* run_id = result["run_id"]
    i,         \* iterations of "for _ in range(30)" started so far
    status,    \* status = requests.get(...).json() of the latest poll
    ret,       \* value returned to the caller
    exc,       \* exception propagated to the caller
    exit,      \* which return statement ended the run
    log,       \* network calls and sleeps of the run, in order
    sentIds,   \* run_id parameter of every poll request, in order
    nonTerm,   \* number of poll responses seen whose state is not terminal
    netErr     \* error of the network call that could not complete, if any

vars == <<pc, result, run_id, i, status, ret, exc, exit, log, sentIds, nonTerm, netErr>>

submits == Len(SelectSeq(log, LAMBDA e : e = "submit"))

polls == Len(SelectSeq(log, LAMBDA e : e = "poll"))

sleeps == Len(SelectSeq(log, LAMBDA e : e = "sleep"))

(***************************************************************************)
(* State beside the single run: the run of the copy of call_gumloop kept   *)
(* in calendar_agent.py, and several runs going on at once against the     *)
(* same remote runner.                                                     *)
(***************************************************************************)
VARIABLES
    cal,       \* locals of a run of calendar_agent.call_gumloop
    runs,      \* locals of each of the runs going on at once
    jobs,      \* the remote runner's jobs, in the order they were submitted
    turn,      \* one turn of an agent: what it does with the AI response
    cred,      \* one call of get_credentials and the two files it works on
    caldel,    \* one delete action on the calendar, with the events it sees
    tsk,       \* one delete or complete action of the tasks agent
    shell,     \* the interactive loop of an agent's main
    research   \* one run of the research script main.py

\* state of the parts that are not a run of call_gumloop or an agent turn
extra == <<cred, caldel, tsk, shell, research>>

beside == <<cal, runs, jobs, turn, extra>>

allvars == <<vars, beside>>

\* the runs going on at once
Runs == {1, 2}

\* a turn before the AI response has arrived
FreshTurn ==
    [pc |-> "begin", agent |-> "none", text |-> <<>>, group |-> <<>>,
     service |-> "none", action |-> "none",
     branch |-> [agent |-> "none", service |-> "none", action |-> "none",
                 lookup |-> "none", guarded |-> FALSE, wrapper |-> "none",
                 mutates |-> FALSE],
     found |-> FALSE, calls |-> <<>>, raised |-> "none", at |-> "none",
     out |-> Unset]

\* locals of a run that has not started
FreshRun ==
    [pc |-> "submit", result |-> Unset, run_id |-> Unset, i |-> 0,
     status |-> Unset, ret |-> Unset, exc |-> "none", exit |-> "none",
     log |-> <<>>, sentIds |-> <<>>]

\* get_credentials not yet called; no token.json, credentials.json in place
FreshCred ==
    [pc |-> "idle", file |-> "absent", secrets |-> TRUE, before |-> "absent",
     creds |-> "none", loaded |-> "none", refresh |-> "no", login |-> "no",
     wrote |-> 0, exc |-> "none"]

\* a calendar turn before the AI response with action delete has arrived
FreshCalDel ==
    [pc |-> "begin", path |-> "none", before |-> <<>>,
     title |-> [k |-> "missing", s |-> <<>>], arg |-> [k |-> "missing", s |-> <<>>],
     j |-> 0, deleted |-> {}, calls |-> <<>>, exc |-> "none", out |-> "none"]

\* a tasks turn before the AI response has arrived
FreshTask ==
    [pc |-> "begin", action |-> "none", tasks |-> <<>>,
     index |-> [k |-> "missing", n |-> 0], title |-> [k |-> "missing", s |-> <<>>],
     by |-> "none", arg |-> [k |-> "missing", n |-> 0], found |-> 0,
     changed |-> {}, calls |-> <<>>, exc |-> "none", out |-> "none"]

\* main() of an agent before it has connected
FreshShell ==
    [pc |-> "start", agent |-> "none", typed |-> <<>>, left |-> 0, right |-> 0,
     line |-> <<>>, user_input |-> <<>>, kind |-> "none", submits |-> 0,
     reads |-> 0, exc |-> "none"]

\* main.py before the query has been submitted
FreshResearch ==
    [pc |-> "submit", result |-> Unset, run_id |-> Unset, i |-> 0, status |-> Unset,
     log |-> <<>>, printed |-> <<>>, exc |-> "none"]

Init ==
    /\ research = FreshResearch
    /\ shell = FreshShell
    /\ tsk = FreshTask
    /\ cred = FreshCred
    /\ caldel = FreshCalDel
    /\ cal = FreshRun
    /\ runs = [r \in Runs |-> FreshRun]
    /\ jobs = <<>>
    /\ turn = FreshTurn
    /\ pc = "submit"
    /\ result = Unset
    /\ run_id = Unset
    /\ i = 0
    /\ status = Unset
    /\ ret = Unset
    /\ exc = "none"
    /\ exit = "none"
    /\ log = <<>>
    /\ sentIds = <<>>
    /\ nonTerm = 0
    /\ netErr = "none"

(***************************************************************************)
(* Conditions of the code.                                                 *)
(***************************************************************************)
\* if "run_id" in result
HasRunId(r) == DictHas(r, "run_id")

\* faulty variant: the state name compared without regard to case
IsDone_AnyCase(st) == DictGet(st, "state", Null) \in {Str("DONE"), Str("done")}

\* status.get("state") == "DONE"
IsDone(st) == DictGet(st, "state", Null) = Str("DONE")

\* faulty variant: ERROR forgotten in the list of failure states
IsFailed_OnlyFailed(st) == DictGet(st, "state", Null) = Str("FAILED")

\* status.get("state") in ["FAILED", "ERROR"]
IsFailed(st) == DictGet(st, "state", Null) \in {Str("FAILED"), Str("ERROR")}

\* faulty variant: status.get("outputs") without the {} default
OutputsOf_NoneDefault(st) == DictGet(st, "outputs", Null)

\* status.get("outputs", {}) : the object .get("output", ...) is called on
OutputsOf(st) == DictGet(st, "outputs", EmptyObj)

\* .get exists on dicts only; on None it raises AttributeError
DoneRaises(st) == OutputsOf(st).k # "obj"

\* faulty variant: the payload is dropped and the fallback returned
DoneValue_NoPayload(st) == NoResponseText

\* status.get("outputs", {}).get("output", "No response")
DoneValue(st) == DictGet(OutputsOf(st), "output", NoResponseText)

(***************************************************************************)
(* Steps of call_gumloop.                                                  *)
(***************************************************************************)
Return(v, how) ==
    /\ pc' = "returned"
    /\ ret' = v
    /\ exit' = how
    /\ exc' = exc

Raise(e) ==
    /\ pc' = "raised"
    /\ exc' = e
    /\ UNCHANGED <<ret, exit>>

\* response = requests.post(...); result = response.json()
Submit ==
    /\ pc = "submit"
    /\ log' = Append(log, "submit")
    /\ \/ \E e \in CallErrors :
            /\ netErr' = e
            /\ Raise(e)
            /\ UNCHANGED result
       \/ \E r \in SubmitResponses :
            /\ result' = r
            /\ UNCHANGED netErr
            /\ pc' = "test_run_id"
            /\ UNCHANGED <<ret, exc, exit>>
    /\ UNCHANGED <<run_id, i, status, sentIds, nonTerm>>

\* faulty variant: run_id = result.get("run_id") without the membership test
TestRunId_NoGuard ==
    /\ pc = "test_run_id"
    /\ run_id' = DictGet(result, "run_id", Null)
    /\ pc' = "loop"
    /\ UNCHANGED <<ret, exc, exit>>
    /\ UNCHANGED <<result, i, status, log, sentIds, nonTerm, netErr>>

\* if "run_id" in result: run_id = result["run_id"] ... else fall to the last return
TestRunId ==
    /\ pc = "test_run_id"
    /\ IF HasRunId(result)
         THEN /\ run_id' = result.f["run_id"]
              /\ pc' = "loop"
              /\ UNCHANGED <<ret, exc, exit>>
         ELSE /\ Return(FallThroughText, "no_run_id")
              /\ UNCHANGED run_id
    /\ UNCHANGED <<result, i, status, log, sentIds, nonTerm, netErr>>

\* faulty variant: range(31), one iteration too many
LoopHead_Inclusive ==
    /\ pc = "loop"
    /\ IF i <= PollBudget
         THEN /\ i' = i + 1
              /\ pc' = "sleep"
              /\ UNCHANGED <<ret, exc, exit>>
         ELSE /\ Return(FallThroughText, "timeout")
              /\ UNCHANGED i
    /\ UNCHANGED <<result, run_id, status, log, sentIds, nonTerm, netErr>>

\* faulty variant: the first attempt polls at once, only later ones sleep first
LoopHead_NoFirstSleep ==
    /\ pc = "loop"
    /\ IF i < PollBudget
         THEN /\ i' = i + 1
              /\ pc' = IF i = 0 THEN "poll" ELSE "sleep"
              /\ UNCHANGED <<ret, exc, exit>>
         ELSE /\ Return(FallThroughText, "timeout")
              /\ UNCHANGED i
    /\ UNCHANGED <<result, run_id, status, log, sentIds, nonTerm, netErr>>

\* for _ in range(30): next iteration, or fall out of the loop to the last return
LoopHead ==
    /\ pc = "loop"
    /\ IF i < PollBudget
         THEN /\ i' = i + 1
              /\ pc' = "sleep"
              /\ UNCHANGED <<ret, exc, exit>>
         ELSE /\ Return(FallThroughText, "timeout")
              /\ UNCHANGED i
    /\ UNCHANGED <<result, run_id, status, log, sentIds, nonTerm, netErr>>

\* time.sleep(2)
Sleep ==
    /\ pc = "sleep"
    /\ log' = Append(log, "sleep")
    /\ pc' = "poll"
    /\ UNCHANGED <<result, run_id, i, status, ret, exc, exit, sentIds, nonTerm, netErr>>

\* faulty variant: the saved pipeline id is sent in place of the run id
Poll_SendsPipelineId ==
    /\ pc = "poll"
    /\ log' = Append(log, "poll")
    /\ sentIds' = Append(sentIds, Str("6oKS6Ca67hQdgqnXDVhYDL"))
    /\ \/ \E e \in CallErrors :
            /\ netErr' = e
            /\ Raise(e)
            /\ UNCHANGED <<status, nonTerm>>
       \/ \E s \in PollResponses :
            /\ status' = s
            /\ nonTerm' = IF StateOf(s) \in TerminalStates THEN nonTerm ELSE nonTerm + 1
            /\ UNCHANGED netErr
            /\ pc' = "check"
            /\ UNCHANGED <<ret, exc, exit>>
    /\ UNCHANGED <<result, run_id, i>>

\* faulty variant: a failed status call is swallowed and the loop goes on
Poll_SwallowError ==
    /\ pc = "poll"
    /\ log' = Append(log, "poll")
    /\ sentIds' = Append(sentIds, run_id)
    /\ \/ \E e \in CallErrors :
            /\ netErr' = e
            /\ pc' = "loop"
            /\ UNCHANGED <<status, nonTerm, ret, exc, exit>>
       \/ \E s \in PollResponses :
            /\ status' = s
            /\ nonTerm' = IF StateOf(s) \in TerminalStates THEN nonTerm ELSE nonTerm + 1
            /\ UNCHANGED netErr
            /\ pc' = "check"
            /\ UNCHANGED <<ret, exc, exit>>
    /\ UNCHANGED <<result, run_id, i>>

\* status = requests.get(..., params={..., "run_id": run_id}).json()
Poll ==
    /\ pc = "poll"
    /\ log' = Append(log, "poll")
    /\ sentIds' = Append(sentIds, run_id)
    /\ \/ \E e \in CallErrors :
            /\ netErr' = e
            /\ Raise(e)
            /\ UNCHANGED <<status, nonTerm>>
       \/ \E s \in PollResponses :
            /\ status' = s
            /\ nonTerm' = IF StateOf(s) \in TerminalStates THEN nonTerm ELSE nonTerm + 1
            /\ UNCHANGED netErr
            /\ pc' = "check"
            /\ UNCHANGED <<ret, exc, exit>>
    /\ UNCHANGED <<result, run_id, i>>

\* faulty variant: a pending status is inspected again and again, never refreshed
Check_SpinOnPending ==
    /\ pc = "check"
    /\ IF IsDone(status)
         THEN IF DoneRaises(status)
                THEN Raise("AttributeError")
                ELSE Return(DoneValue(status), "done")
         ELSE IF IsFailed(status)
                THEN Return(RemoteFailureText, "remote_failure")
                ELSE UNCHANGED <<pc, ret, exc, exit>>
    /\ UNCHANGED <<result, run_id, i, status, log, sentIds, nonTerm, netErr>>

\* faulty variant: on the last attempt the budget is tested before the state
Check_BudgetFirst ==
    /\ pc = "check"
    /\ IF i >= PollBudget
         THEN Return(FallThroughText, "timeout")
         ELSE IF IsDone(status)
                THEN IF DoneRaises(status)
                       THEN Raise("AttributeError")
                       ELSE Return(DoneValue(status), "done")
                ELSE IF IsFailed(status)
                       THEN Return(RemoteFailureText, "remote_failure")
                       ELSE /\ pc' = "loop"
                            /\ UNCHANGED <<ret, exc, exit>>
    /\ UNCHANGED <<result, run_id, i, status, log, sentIds, nonTerm, netErr>>

\* if state == "DONE": return ... elif state in ["FAILED", "ERROR"]: return ...
Check ==
    /\ pc = "check"
    /\ IF IsDone(status)
         THEN IF DoneRaises(status)
                THEN Raise("AttributeError")
                ELSE Return(DoneValue(status), "done")
         ELSE IF IsFailed(status)
                THEN Return(RemoteFailureText, "remote_failure")
                ELSE /\ pc' = "loop"
                     /\ UNCHANGED <<ret, exc, exit>>
    /\ UNCHANGED <<result, run_id, i, status, log, sentIds, nonTerm, netErr>>

\* one run alone: nothing beside it moves
Next ==
    \/ Submit /\ UNCHANGED beside
    \/ TestRunId /\ UNCHANGED beside
    \/ LoopHead /\ UNCHANGED beside
    \/ Sleep /\ UNCHANGED beside
    \/ Poll /\ UNCHANGED beside
    \/ Check /\ UNCHANGED beside

\* time spent in time.sleep so far
slept == sleeps * PollInterval

Spec == Init /\ [][Next]_allvars

(***************************************************************************)
(* The copy of call_gumloop in calendar_agent.py, as a function from the   *)
(* locals of a run and the remote runner's answer to the locals after the  *)
(* next statement.  err is the error of the network call ("none" when it   *)
(* completed), res the submission body, st the status body.                *)
(***************************************************************************)
\* faulty variant: the copy polls for twice as long
CalPollBudget_Doubled == 2 * 30

\* for _ in range(30)
CalPollBudget == 30

\* return "AI request failed" inside the loop
CalRemoteFailureText == Str("AI request failed")

\* return "AI request failed" after the if
CalFallThroughText == Str("AI request failed")

\* status.get("outputs", {}).get("output", "No response")
CalDoneValue(st) ==
    DictGet(DictGet(st, "outputs", EmptyObj), "output", Str("No response"))

\* .get on an outputs value that is not a dict raises AttributeError
CalDoneRaises(st) == DictGet(st, "outputs", EmptyObj).k # "obj"

CalReturn(c, v, how) == [c EXCEPT !.pc = "returned", !.ret = v, !.exit = how]

CalRaise(c, e) == [c EXCEPT !.pc = "raised", !.exc = e]

\* response = requests.post(...); result = response.json()
CalSubmit(c, err, res) ==
    LET d == [c EXCEPT !.log = Append(@, "submit")]
    IN  IF err # "none"
          THEN CalRaise(d, err)
          ELSE [d EXCEPT !.result = res, !.pc = "test_run_id"]

\* if "run_id" in result: run_id = result["run_id"]
CalTestRunId(c) ==
    IF DictHas(c.result, "run_id")
      THEN [c EXCEPT !.run_id = c.result.f["run_id"], !.pc = "loop"]
      ELSE CalReturn(c, CalFallThroughText, "no_run_id")

\* for _ in range(30)
CalLoopHead(c) ==
    IF c.i < CalPollBudget
      THEN [c EXCEPT !.i = @ + 1, !.pc = "sleep"]
      ELSE CalReturn(c, CalFallThroughText, "timeout")

\* time.sleep(2)
CalSleep(c) == [c EXCEPT !.log = Append(@, "sleep"), !.pc = "poll"]

\* status = requests.get(..., params={..., "run_id": run_id}).json()
CalPoll(c, err, st) ==
    LET d == [c EXCEPT !.log = Append(@, "poll"), !.sentIds = Append(@, c.run_id)]
    IN  IF err # "none"
          THEN CalRaise(d, err)
          ELSE [d EXCEPT !.status = st, !.pc = "check"]

\* if state == "DONE": return ... elif state in ["FAILED", "ERROR"]: return ...
CalCheck(c) ==
    IF DictGet(c.status, "state", Null) = Str("DONE")
      THEN IF CalDoneRaises(c.status)
             THEN CalRaise(c, "AttributeError")
             ELSE CalReturn(c, CalDoneValue(c.status), "done")
      ELSE IF DictGet(c.status, "state", Null) \in {Str("FAILED"), Str("ERROR")}
             THEN CalReturn(c, CalRemoteFailureText, "remote_failure")
             ELSE [c EXCEPT !.pc = "loop"]

\* the next statement of the run, whichever it is
CalStep(c, err, res, st) ==
    CASE c.pc = "submit" -> CalSubmit(c, err, res)
      [] c.pc = "test_run_id" -> CalTestRunId(c)
      [] c.pc = "loop" -> CalLoopHead(c)
      [] c.pc = "sleep" -> CalSleep(c)
      [] c.pc = "poll" -> CalPoll(c, err, st)
      [] c.pc = "check" -> CalCheck(c)
      [] OTHER -> c

\* the copy takes its next statement on the answer the first run just got
CalFollows == cal' = CalStep(cal, netErr', result', status')

\* both copies run side by side against the same answers of the remote runner
EquivNext ==
    \/ Submit /\ CalFollows /\ UNCHANGED <<runs, jobs, turn, extra>>
    \/ TestRunId /\ CalFollows /\ UNCHANGED <<runs, jobs, turn, extra>>
    \/ LoopHead /\ CalFollows /\ UNCHANGED <<runs, jobs, turn, extra>>
    \/ Sleep /\ CalFollows /\ UNCHANGED <<runs, jobs, turn, extra>>
    \/ Poll /\ CalFollows /\ UNCHANGED <<runs, jobs, turn, extra>>
    \/ Check /\ CalFollows /\ UNCHANGED <<runs, jobs, turn, extra>>

EquivSpec == Init /\ [][EquivNext]_allvars

(***************************************************************************)
(* Several runs of google_auth.call_gumloop going on at once.  Each run    *)
(* has its own locals (a record of runs); the module-level names of        *)
(* google_auth.py are constants that no statement assigns.  The remote     *)
(* runner keeps one job per accepted submission and answers a status       *)
(* request from the job whose id the request carries.                      *)
(***************************************************************************)
RunReturn(s, v, how) == [s EXCEPT !.pc = "returned", !.ret = v, !.exit = how]

RunRaise(s, e) == [s EXCEPT !.pc = "raised", !.exc = e]

\* response = requests.post(...); result = response.json()
RunSubmit(s, err, res) ==
    LET d == [s EXCEPT !.log = Append(@, "submit")]
    IN  IF err # "none"
          THEN RunRaise(d, err)
          ELSE [d EXCEPT !.result = res, !.pc = "test_run_id"]

\* status = requests.get(..., params={..., "run_id": id}).json()
RunPoll(s, id, err, st) ==
    LET d == [s EXCEPT !.log = Append(@, "poll"), !.sentIds = Append(@, id)]
    IN  IF err # "none"
          THEN RunRaise(d, err)
          ELSE [d EXCEPT !.status = st, !.pc = "check"]

\* the statements of a run that touch nothing but its locals
RunLocal(s) ==
    CASE s.pc = "test_run_id" ->
            IF HasRunId(s.result)
              THEN [s EXCEPT !.run_id = s.result.f["run_id"], !.pc = "loop"]
              ELSE RunReturn(s, FallThroughText, "no_run_id")
      [] s.pc = "loop" ->
            IF s.i < PollBudget
              THEN [s EXCEPT !.i = @ + 1, !.pc = "sleep"]
              ELSE RunReturn(s, FallThroughText, "timeout")
      [] s.pc = "sleep" -> [s EXCEPT !.log = Append(@, "sleep"), !.pc = "poll"]
      [] s.pc = "check" ->
            IF IsDone(s.status)
              THEN IF DoneRaises(s.status)
                     THEN RunRaise(s, "AttributeError")
                     ELSE RunReturn(s, DoneValue(s.status), "done")
              ELSE IF IsFailed(s.status)
                     THEN RunReturn(s, RemoteFailureText, "remote_failure")
                     ELSE [s EXCEPT !.pc = "loop"]
      [] OTHER -> s

\* the remote runner: id and output of the k-th job, and its status body
JobId(k) == Str(<<"job1", "job2", "job3">>[k])

JobOutput(k) == Str(<<"output of job1", "output of job2", "output of job3">>[k])

JobBody(k) ==
    CASE jobs[k] = "DONE" ->
            Obj([state |-> Str("DONE"), outputs |-> Obj([output |-> JobOutput(k)])])
      [] jobs[k] = "FAILED" -> Obj([state |-> Str("FAILED")])
      [] OTHER -> Obj([state |-> Str("RUNNING")])

\* the answer to a status request carrying id
RemoteStatus(id) ==
    IF \E k \in 1..Len(jobs) : JobId(k) = id
      THEN JobBody(CHOOSE k \in 1..Len(jobs) : JobId(k) = id)
      ELSE Obj([state |-> Str("ERROR")])

\* faulty variant: the run id is kept in a module-level name, which holds the
\* id of whichever submission came last
PollId_ModuleLevel(r) == JobId(Len(jobs))

\* "run_id": run_id, the local of the run
PollId(r) == runs[r].run_id

\* a run submits: the call fails, or is refused without a run_id, or the
\* remote runner starts a new job and answers with its id
ConcSubmit(r) ==
    /\ runs[r].pc = "submit"
    /\ \/ \E e \in CallErrors :
            /\ runs' = [runs EXCEPT ![r] = RunSubmit(@, e, Unset)]
            /\ UNCHANGED jobs
       \/ /\ runs' = [runs EXCEPT ![r] = RunSubmit(@, "none", Obj([error |-> Str("bad request")]))]
          /\ UNCHANGED jobs
       \/ /\ jobs' = Append(jobs, "RUNNING")
          /\ runs' = [runs EXCEPT ![r] = RunSubmit(@, "none", Obj([run_id |-> JobId(Len(jobs) + 1)]))]

\* a run takes a statement on its locals
ConcLocal(r) ==
    /\ runs[r].pc \in {"test_run_id", "loop", "sleep", "check"}
    /\ runs' = [runs EXCEPT ![r] = RunLocal(@)]
    /\ UNCHANGED jobs

\* a run asks for the status of the job whose id it sends
ConcPoll(r) ==
    /\ runs[r].pc = "poll"
    /\ \E e \in CallErrors \cup {"none"} :
          runs' = [runs EXCEPT ![r] = RunPoll(@, PollId(r), e, RemoteStatus(PollId(r)))]
    /\ UNCHANGED jobs

\* the remote runner finishes a job
JobAdvance(k) ==
    /\ jobs[k] = "RUNNING"
    /\ \E to \in {"DONE", "FAILED"} : jobs' = [jobs EXCEPT ![k] = to]
    /\ UNCHANGED runs

ConcNext ==
    \/ \E r \in Runs : ConcSubmit(r) /\ UNCHANGED <<vars, cal, turn, extra>>
    \/ \E r \in Runs : ConcLocal(r) /\ UNCHANGED <<vars, cal, turn, extra>>
    \/ \E r \in Runs : ConcPoll(r) /\ UNCHANGED <<vars, cal, turn, extra>>
    \/ \E k \in 1..Len(jobs) : JobAdvance(k) /\ UNCHANGED <<vars, cal, turn, extra>>

ConcSpec == Init /\ [][ConcNext]_allvars

(***************************************************************************)
(* One turn of an agent after call_gumloop has returned: process_with_ai   *)
(* of the nine domain agents and route_request of the unified router.      *)
(* The AI response is a text over brace-level tokens: "{" and "}" are the  *)
(* brace characters, "m" is text without braces that json.loads accepts     *)
(* between two braces (a list of members, or blanks), "x" is any other     *)
(* text without braces.                                                    *)
(***************************************************************************)
Tokens == {"{", "}", "m", "x"}

\* longest AI response considered, in tokens
MaxTextLen == 4

Texts == UNION {[1..n -> Tokens] : n \in 0..MaxTextLen}

\* the text call_gumloop hands to the agent, as tokens: its fixed strings hold
\* no brace and are no member list
TokensOf(v) ==
    IF v \in {RemoteFailureText, FallThroughText, NoResponseText}
      THEN <<"x">>
      ELSE <<"{", "m", "}">>

\* positions of the opening braces from which the pattern can match
OpensFirstClose(t) ==
    {p \in 1..Len(t) :
        /\ t[p] = "{"
        /\ \E q \in (p + 2)..Len(t) :
              t[q] = "}" /\ \A j \in (p + 1)..(q - 1) : t[j] # "}"}

\* re.search(r'\{[^}]+\}', text): from the leftmost such "{" to the first "}"
\* after it; the empty sequence stands for None
SearchFirstClose(t) ==
    IF OpensFirstClose(t) = {}
      THEN <<>>
      ELSE LET p == CHOOSE a \in OpensFirstClose(t) : \A b \in OpensFirstClose(t) : a <= b
               q == CHOOSE a \in (p + 2)..Len(t) :
                       t[a] = "}" /\ \A j \in (p + 1)..(a - 1) : t[j] # "}"
           IN  SubSeq(t, p, q)

\* re.search(r'\{.*\}', text, re.DOTALL): from the leftmost "{" that has a "}"
\* after it to the last "}" of the text
SearchLastClose(t) ==
    LET opens == {p \in 1..Len(t) : t[p] = "{" /\ \E q \in (p + 1)..Len(t) : t[q] = "}"}
    IN  IF opens = {}
          THEN <<>>
          ELSE LET p == CHOOSE a \in opens : \A b \in opens : a <= b
                   q == CHOOSE a \in (p + 1)..Len(t) :
                           t[a] = "}" /\ \A j \in (a + 1)..Len(t) : t[j] # "}"
               IN  SubSeq(t, p, q)

\* json.loads(group) returns a dict for "{}" and for "{" members "}", and
\* raises JSONDecodeError for every other group
JsonLoadsOk(g) == g \in {<<"{", "}">>, <<"{", "m", "}">>}

Agents == {"calendar", "gmail", "drive", "docs", "sheets", "slides", "tasks",
           "contacts", "forms", "router"}

\* the pattern each agent searches the AI response with
RegexOf(a) ==
    IF a \in {"sheets", "forms", "router"} THEN "last_close" ELSE "first_close"

Search(a, t) ==
    IF RegexOf(a) = "last_close" THEN SearchLastClose(t) ELSE SearchFirstClose(t)

\* faulty variant: every agent hands the raw AI text back from its handler
HandlerOf_AllRaw(a) == "raw"

\* what the except clause around the parse and the dispatch returns:
\* "except: return ai_response" or "except Exception as e: return f'Error: ...'"
HandlerOf(a) == IF a = "calendar" THEN "raw" ELSE "error"

\* a branch of the if / elif chain: the key it tests, the lookup it makes
\* first, whether an if guards the call, the wrapper called, and whether that
\* wrapper creates, changes, sends or deletes something
B(a, svc, act, lk, gd, w, mut) ==
    [agent |-> a, service |-> svc, action |-> act, lookup |-> lk,
     guarded |-> gd, wrapper |-> w, mutates |-> mut]

CalendarBranches ==
    { B("calendar", "any", "create", "none", TRUE, "create_event", TRUE),
      B("calendar", "any", "list", "none", FALSE, "list_events", FALSE),
      B("calendar", "any", "delete", "none", TRUE, "delete_event_by_name", TRUE) }

GmailBranches ==
    { B("gmail", "any", "list", "none", FALSE, "list_messages", FALSE),
      B("gmail", "any", "search", "none", FALSE, "search_messages", FALSE),
      B("gmail", "any", "read", "get_message_by_index", FALSE, "read_message", FALSE),
      B("gmail", "any", "send", "none", TRUE, "send_email", TRUE),
      B("gmail", "any", "trash", "get_message_by_index", FALSE, "trash_message", TRUE),
      B("gmail", "any", "unread", "none", FALSE, "list_messages", FALSE),
      B("gmail", "any", "labels", "none", FALSE, "list_labels", FALSE) }

DriveBranches ==
    { B("drive", "any", "list", "none", FALSE, "list_files", FALSE),
      B("drive", "any", "search", "none", FALSE, "search_files", FALSE),
      B("drive", "any", "create_folder", "none", FALSE, "create_folder", TRUE),
      B("drive", "any", "upload", "none", FALSE, "upload_file", TRUE),
      B("drive", "any", "download", "get_file_by_index", FALSE, "download_file", FALSE),
      B("drive", "any", "delete", "get_file_by_index", FALSE, "delete_file", TRUE),
      B("drive", "any", "share", "get_file_by_index", TRUE, "share_file", TRUE) }

DocsBranches ==
    { B("docs", "any", "list", "none", FALSE, "list_docs", FALSE),
      B("docs", "any", "search", "none", FALSE, "search_docs", FALSE),
      B("docs", "any", "create", "none", FALSE, "create_document", TRUE),
      B("docs", "any", "read", "get_doc_by_index", FALSE, "get_document", FALSE),
      B("docs", "any", "append", "get_doc_by_index", TRUE, "append_text", TRUE),
      B("docs", "any", "replace", "get_doc_by_index", TRUE, "replace_text", TRUE) }

SheetsBranches ==
    { B("sheets", "any", "list", "none", FALSE, "list_spreadsheets", FALSE),
      B("sheets", "any", "search", "none", FALSE, "search_spreadsheets", FALSE),
      B("sheets", "any", "create", "none", FALSE, "create_spreadsheet", TRUE),
      B("sheets", "any", "read", "get_sheet_by_index", FALSE, "read_range", FALSE),
      B("sheets", "any", "write", "get_sheet_by_index", TRUE, "write_range", TRUE),
      B("sheets", "any", "append", "get_sheet_by_index", TRUE, "append_row", TRUE),
      B("sheets", "any", "info", "get_sheet_by_index", FALSE, "get_spreadsheet_info", FALSE),
      B("sheets", "any", "clear", "get_sheet_by_index", TRUE, "clear_range", TRUE) }

SlidesBranches ==
    { B("slides", "any", "list", "none", FALSE, "list_presentations", FALSE),
      B("slides", "any", "create", "none", FALSE, "create_presentation", TRUE),
      B("slides", "any", "info", "get_presentation_by_index", FALSE, "get_presentation", FALSE),
      B("slides", "any", "add_slide", "get_presentation_by_index", FALSE, "add_slide", TRUE),
      B("slides", "any", "add_title", "get_presentation_by_index", FALSE, "add_title_slide", TRUE),
      B("slides", "any", "add_text", "get_presentation_by_index", TRUE, "add_text_to_slide", TRUE) }

TasksBranches ==
    { B("tasks", "any", "list", "none", FALSE, "list_tasks", FALSE),
      B("tasks", "any", "list_all", "none", FALSE, "list_tasks", FALSE),
      B("tasks", "any", "create", "none", TRUE, "create_task", TRUE),
      B("tasks", "any", "complete", "get_task_by_index", TRUE, "complete_task", TRUE),
      B("tasks", "any", "delete", "get_task_by_index", FALSE, "delete_task", TRUE),
      B("tasks", "any", "clear_completed", "none", FALSE, "clear_completed", TRUE),
      B("tasks", "any", "list_lists", "none", FALSE, "list_task_lists", FALSE),
      B("tasks", "any", "create_list", "none", FALSE, "create_task_list", TRUE) }

ContactsBranches ==
    { B("contacts", "any", "list", "none", FALSE, "list_contacts", FALSE),
      B("contacts", "any", "search", "none", FALSE, "search_contacts", FALSE),
      B("contacts", "any", "create", "none", TRUE, "create_contact", TRUE),
      B("contacts", "any", "details", "get_contact_by_index", FALSE, "get_contact_details", FALSE),
      B("contacts", "any", "update", "get_contact_by_index", FALSE, "update_contact", TRUE),
      B("contacts", "any", "delete", "get_contact_by_index", FALSE, "delete_contact", TRUE) }

FormsBranches ==
    { B("forms", "any", "list", "none", FALSE, "list_forms", FALSE),
      B("forms", "any", "create", "none", FALSE, "create_form", TRUE),
      B("forms", "any", "info", "get_form_by_index", FALSE, "get_form", FALSE),
      B("forms", "any", "add_question", "get_form_by_index", TRUE, "add_question", TRUE),
      B("forms", "any", "responses", "get_form_by_index", FALSE, "get_responses", FALSE) }

\* the branches of route_request; the status branch tests the service only
RouterBranches ==
    { B("router", "calendar", "list", "none", FALSE, "list_events", FALSE),
      B("router", "calendar", "create", "none", FALSE, "create_event", TRUE),
      B("router", "calendar", "delete", "none", FALSE, "delete_event_by_name", TRUE),
      B("router", "gmail", "list", "none", FALSE, "list_messages", FALSE),
      B("router", "gmail", "unread", "none", FALSE, "list_messages", FALSE),
      B("router", "gmail", "search", "none", FALSE, "search_messages", FALSE),
      B("router", "gmail", "send", "none", FALSE, "send_email", TRUE),
      B("router", "drive", "list", "none", FALSE, "list_files", FALSE),
      B("router", "drive", "search", "none", FALSE, "search_files", FALSE),
      B("router", "drive", "create_folder", "none", FALSE, "create_folder", TRUE),
      B("router", "docs", "list", "none", FALSE, "list_docs", FALSE),
      B("router", "docs", "create", "none", FALSE, "create_document", TRUE),
      B("router", "sheets", "list", "none", FALSE, "list_spreadsheets", FALSE),
      B("router", "sheets", "create", "none", FALSE, "create_spreadsheet", TRUE),
      B("router", "slides", "list", "none", FALSE, "list_presentations", FALSE),
      B("router", "slides", "create", "none", FALSE, "create_presentation", TRUE),
      B("router", "tasks", "list", "none", FALSE, "list_tasks", FALSE),
      B("router", "tasks", "create", "none", FALSE, "create_task", TRUE),
      B("router", "tasks", "complete", "get_task_by_title", FALSE, "complete_task", TRUE),
      B("router", "contacts", "list", "none", FALSE, "list_contacts", FALSE),
      B("router", "contacts", "search", "none", FALSE, "search_contacts", FALSE),
      B("router", "contacts", "create", "none", FALSE, "create_contact", TRUE),
      B("router", "forms", "list", "none", FALSE, "list_forms", FALSE),
      B("router", "forms", "create", "none", FALSE, "create_form", TRUE),
      B("router", "status", "any", "none", FALSE, "status_overview", FALSE) }

Branches ==
    CalendarBranches \cup GmailBranches \cup DriveBranches \cup DocsBranches
    \cup SheetsBranches \cup SlidesBranches \cup TasksBranches
    \cup ContactsBranches \cup FormsBranches \cup RouterBranches

\* the JSON formats the router's prompt offers to the AI, as (service, action)
PromptPairs ==
    { <<"calendar", "list">>, <<"calendar", "create">>, <<"calendar", "delete">>,
      <<"gmail", "list">>, <<"gmail", "unread">>, <<"gmail", "search">>, <<"gmail", "send">>,
      <<"drive", "list">>, <<"drive", "search">>, <<"drive", "create_folder">>, <<"drive", "share">>,
      <<"docs", "list">>, <<"docs", "create">>, <<"docs", "read">>,
      <<"sheets", "list">>, <<"sheets", "create">>, <<"sheets", "read">>, <<"sheets", "append">>,
      <<"slides", "list">>, <<"slides", "create">>,
      <<"tasks", "list">>, <<"tasks", "create">>, <<"tasks", "complete">>,
      <<"contacts", "list">>, <<"contacts", "search">>, <<"contacts", "create">>,
      <<"forms", "list">>, <<"forms", "create">>, <<"forms", "responses">>,
      <<"status", "overview">> }

\* the (service, action) a parsed response may name to agent a: what its
\* branches test, what the router's prompt offers, a chat, an action nobody
\* handles, and no action at all
Intents(a) ==
    IF a = "router"
      THEN PromptPairs
           \cup {<<b.service, b.action>> : b \in {c \in RouterBranches : c.action # "any"}}
           \cup {<<"chat", "none">>, <<"calendar", "bogus">>, <<"bogus", "list">>,
                 <<"none", "none">>}
      ELSE {<<"none", b.action>> : b \in {c \in Branches : c.agent = a}}
           \cup {<<"none", "chat">>, <<"none", "bogus">>, <<"none", "none">>}

\* faulty variant: the router looks at the service only
Matching_ServiceOnly(a, svc, act) ==
    {b \in Branches :
        /\ b.agent = a
        /\ IF a = "router" THEN b.service = svc ELSE b.action = act}

\* the branches whose test the parsed response passes
Matching(a, svc, act) ==
    {b \in Branches :
        /\ b.agent = a
        /\ IF a = "router"
             THEN b.service = svc /\ (b.action = act \/ b.action = "any")
             ELSE b.action = act}

\* data.get("action") == "chat", or service_name == "chat" in the router; the
\* branch returns data.get("response", ai_response)
IsChat(a, svc, act) == IF a = "router" THEN svc = "chat" ELSE act = "chat"

\* values a turn hands back to the interactive loop
RawText(t) == [k |-> "raw", text |-> t]

ErrorText(e) == [k |-> "error", e |-> e]

ResultOf(w) == [k |-> "result", of |-> w]

MessageText == [k |-> "message"]

ChatText == [k |-> "chat"]

\* how many creating, changing, sending or deleting API requests a wrapper
\* has executed when it returns: add_title_slide runs one batchUpdate for the
\* slide and one for each placeholder it fills; delete_event_by_name and
\* update_contact return without a request when there is nothing to change
WritesOnReturn(b) ==
    IF ~b.mutates THEN {0}
    ELSE IF b.wrapper = "add_title_slide" THEN {1, 2, 3}
    ELSE IF b.wrapper \in {"delete_event_by_name", "update_contact"} THEN {0, 1}
    ELSE {1}

\* and how many have been executed when one of its requests raises
WritesOnRaise(b) ==
    IF b.mutates /\ b.wrapper = "add_title_slide" THEN {0, 1, 2} ELSE {0}

TurnReturn(v) == turn' = [turn EXCEPT !.pc = "done", !.out = v]

\* an exception inside the try block reaches the except clause of the agent
TurnHandle(tn, e, where) ==
    [tn EXCEPT !.pc = "done", !.raised = e, !.at = where,
               !.out = IF HandlerOf(tn.agent) = "raw"
                         THEN RawText(tn.text) ELSE ErrorText(e)]

\* ai_response = call_gumloop(prompt): some agent gets some text
TurnBegin ==
    /\ turn.pc = "begin"
    /\ \E a \in Agents, t \in Texts :
          turn' = [turn EXCEPT !.pc = "parse", !.agent = a, !.text = t]

\* faulty variant: a response without a match is reported as an error
TurnParse_NoMatchIsError ==
    /\ turn.pc = "parse"
    /\ LET g == Search(turn.agent, turn.text)
       IN  IF g = <<>>
             THEN TurnReturn(ErrorText("no JSON"))
             ELSE IF ~JsonLoadsOk(g)
                    THEN turn' = TurnHandle([turn EXCEPT !.group = g], "JSONDecodeError", "parse")
                    ELSE IF g = <<"{", "}">>
                           THEN turn' = [turn EXCEPT !.pc = "dispatch", !.group = g]
                           ELSE \E n \in Intents(turn.agent) :
                                   turn' = [turn EXCEPT !.pc = "dispatch", !.group = g,
                                                        !.service = n[1], !.action = n[2]]

\* json_match = re.search(...); if json_match: data = json.loads(json_match.group())
TurnParse ==
    /\ turn.pc = "parse"
    /\ LET g == Search(turn.agent, turn.text)
       IN  IF g = <<>>
             THEN TurnReturn(RawText(turn.text))
             ELSE IF ~JsonLoadsOk(g)
                    THEN turn' = TurnHandle([turn EXCEPT !.group = g], "JSONDecodeError", "parse")
                    ELSE IF g = <<"{", "}">>
                           THEN turn' = [turn EXCEPT !.pc = "dispatch", !.group = g]
                           ELSE \E n \in Intents(turn.agent) :
                                   turn' = [turn EXCEPT !.pc = "dispatch", !.group = g,
                                                        !.service = n[1], !.action = n[2]]

\* the if / elif chain on data.get("service") and data.get("action")
TurnDispatch ==
    /\ turn.pc = "dispatch"
    /\ LET bs == Matching(turn.agent, turn.service, turn.action)
       IN  IF bs # {}
             THEN \E b \in bs :
                     turn' = [turn EXCEPT !.branch = b,
                                          !.pc = IF b.lookup # "none" THEN "lookup" ELSE "guard"]
             ELSE IF IsChat(turn.agent, turn.service, turn.action)
                    THEN \/ TurnReturn(ChatText)
                         \/ TurnReturn(RawText(turn.text))
                    ELSE TurnReturn(RawText(turn.text))

\* the lookup of the item the action is about (a read of the Google API)
TurnLookup ==
    /\ turn.pc = "lookup"
    /\ LET tn == [turn EXCEPT !.calls = Append(@, [fn |-> turn.branch.lookup, mutates |-> FALSE, writes |-> 0])]
       IN  \/ turn' = TurnHandle(tn, "HttpError", "lookup")
           \/ \E f \in BOOLEAN : turn' = [tn EXCEPT !.found = f, !.pc = "guard"]

\* the if in front of the wrapper call: item found, arguments present
TurnGuard ==
    /\ turn.pc = "guard"
    /\ IF turn.branch.lookup # "none" /\ ~turn.found
         THEN TurnReturn(MessageText)
         ELSE IF turn.branch.guarded
                THEN \/ TurnReturn(MessageText)
                     \/ turn' = [turn EXCEPT !.pc = "wrapper"]
                ELSE turn' = [turn EXCEPT !.pc = "wrapper"]

\* the wrapper call: it returns its text, or the Google API call raises
TurnWrapper ==
    /\ turn.pc = "wrapper"
    /\ LET called(n) == [turn EXCEPT !.calls = Append(@, [fn |-> turn.branch.wrapper,
                                                         mutates |-> turn.branch.mutates,
                                                         writes |-> n])]
       IN  \/ \E n \in WritesOnRaise(turn.branch) :
                 turn' = TurnHandle(called(n), "HttpError", "wrapper")
           \/ \E n \in WritesOnReturn(turn.branch) :
                 turn' = [called(n) EXCEPT !.pc = "done",
                                           !.out = ResultOf(turn.branch.wrapper)]

\* print(f"Assistant: {response}") in the interactive loop, then the next input
TurnPrint ==
    /\ turn.pc = "done"
    /\ turn' = FreshTurn

TurnNext ==
    \/ TurnBegin /\ UNCHANGED <<vars, cal, runs, jobs, extra>>
    \/ TurnParse /\ UNCHANGED <<vars, cal, runs, jobs, extra>>
    \/ TurnDispatch /\ UNCHANGED <<vars, cal, runs, jobs, extra>>
    \/ TurnLookup /\ UNCHANGED <<vars, cal, runs, jobs, extra>>
    \/ TurnGuard /\ UNCHANGED <<vars, cal, runs, jobs, extra>>
    \/ TurnWrapper /\ UNCHANGED <<vars, cal, runs, jobs, extra>>
    \/ TurnPrint /\ UNCHANGED <<vars, cal, runs, jobs, extra>>

TurnSpec == Init /\ [][TurnNext]_allvars

(***************************************************************************)
(* get_credentials of google_auth.py (get_calendar_service of              *)
(* calendar_agent.py holds the same statements): the token file, the       *)
(* client secrets file, and one call, statement by statement.              *)
(***************************************************************************)
\* what token.json may hold: nothing (no file), credentials that are valid,
\* expired with or without a refresh token, neither valid nor expired (no
\* access token), or bytes that from_authorized_user_file cannot read
TokenFiles == {"absent", "valid", "expired_refreshable", "expired", "invalid", "corrupt"}

\* creds.valid
CredsValid(c) == c = "valid"

\* creds and creds.expired and creds.refresh_token
CredsRefreshable(c) == c = "expired_refreshable"

\* exceptions of creds.refresh(Request())
RefreshErrors == {"RefreshError", "TransportError"}

\* exceptions of flow.run_local_server(port=0)
LoginErrors == {"AccessDeniedError", "OSError"}

CredRaise(e) == cred' = [cred EXCEPT !.pc = "raised", !.exc = e]

\* between two program starts the user or time changes the files
CredDisk ==
    /\ cred.pc = "idle"
    /\ \E f \in TokenFiles, c \in BOOLEAN :
          /\ <<f, c>> # <<cred.file, cred.secrets>>
          /\ cred' = [cred EXCEPT !.file = f, !.secrets = c]

\* creds = None; if os.path.exists(TOKEN_FILE)
CredCall ==
    /\ cred.pc = "idle"
    /\ cred' = [FreshCred EXCEPT !.file = cred.file, !.secrets = cred.secrets,
                                 !.before = cred.file,
                                 !.pc = IF cred.file # "absent" THEN "load" ELSE "test_valid"]

\* creds = Credentials.from_authorized_user_file(TOKEN_FILE, SCOPES)
CredLoad ==
    /\ cred.pc = "load"
    /\ IF cred.file = "corrupt"
         THEN CredRaise("ValueError")
         ELSE cred' = [cred EXCEPT !.creds = cred.file, !.loaded = cred.file,
                                   !.pc = "test_valid"]

\* faulty variant: valid credentials are written back as well
CredTestValid_RewriteValid ==
    /\ cred.pc = "test_valid"
    /\ cred' = [cred EXCEPT !.pc =
                   IF cred.creds # "none" /\ CredsValid(cred.creds) THEN "write"
                   ELSE IF cred.creds # "none" /\ CredsRefreshable(cred.creds) THEN "refresh"
                   ELSE "secrets"]

\* if not creds or not creds.valid: if creds and creds.expired and
\* creds.refresh_token: ... else: ...
CredTestValid ==
    /\ cred.pc = "test_valid"
    /\ cred' = [cred EXCEPT !.pc =
                   IF cred.creds # "none" /\ CredsValid(cred.creds) THEN "return"
                   ELSE IF cred.creds # "none" /\ CredsRefreshable(cred.creds) THEN "refresh"
                   ELSE "secrets"]

\* creds.refresh(Request())
CredRefresh ==
    /\ cred.pc = "refresh"
    /\ \/ \E e \in RefreshErrors :
            cred' = [cred EXCEPT !.pc = "raised", !.exc = e, !.refresh = "failed"]
       \/ cred' = [cred EXCEPT !.creds = "valid", !.refresh = "ok", !.pc = "write"]

\* if not os.path.exists(CREDENTIALS_FILE): raise FileNotFoundError(...)
CredSecrets ==
    /\ cred.pc = "secrets"
    /\ IF ~cred.secrets
         THEN CredRaise("FileNotFoundError")
         ELSE cred' = [cred EXCEPT !.pc = "login"]

\* flow = InstalledAppFlow.from_client_secrets_file(...); creds = flow.run_local_server(port=0)
CredLogin ==
    /\ cred.pc = "login"
    /\ \/ \E e \in LoginErrors :
            cred' = [cred EXCEPT !.pc = "raised", !.exc = e, !.login = "failed"]
       \/ cred' = [cred EXCEPT !.creds = "valid", !.login = "ok", !.pc = "write"]

\* with open(TOKEN_FILE, "w") as token: token.write(creds.to_json())
CredWrite ==
    /\ cred.pc = "write"
    /\ cred' = [cred EXCEPT !.file = cred.creds, !.wrote = @ + 1, !.pc = "return"]

\* return creds
CredReturn ==
    /\ cred.pc = "return"
    /\ cred' = [cred EXCEPT !.pc = "returned"]

\* the program ends; it may be started again
CredAgain ==
    /\ cred.pc \in {"returned", "raised"}
    /\ cred' = [cred EXCEPT !.pc = "idle"]

CredNext ==
    \/ CredDisk /\ UNCHANGED <<vars, cal, runs, jobs, turn, caldel, tsk, shell, research>>
    \/ CredCall /\ UNCHANGED <<vars, cal, runs, jobs, turn, caldel, tsk, shell, research>>
    \/ CredLoad /\ UNCHANGED <<vars, cal, runs, jobs, turn, caldel, tsk, shell, research>>
    \/ CredTestValid /\ UNCHANGED <<vars, cal, runs, jobs, turn, caldel, tsk, shell, research>>
    \/ CredRefresh /\ UNCHANGED <<vars, cal, runs, jobs, turn, caldel, tsk, shell, research>>
    \/ CredSecrets /\ UNCHANGED <<vars, cal, runs, jobs, turn, caldel, tsk, shell, research>>
    \/ CredLogin /\ UNCHANGED <<vars, cal, runs, jobs, turn, caldel, tsk, shell, research>>
    \/ CredWrite /\ UNCHANGED <<vars, cal, runs, jobs, turn, caldel, tsk, shell, research>>
    \/ CredReturn /\ UNCHANGED <<vars, cal, runs, jobs, turn, caldel, tsk, shell, research>>
    \/ CredAgain /\ UNCHANGED <<vars, cal, runs, jobs, turn, caldel, tsk, shell, research>>

CredSpec == Init /\ [][CredNext]_allvars

(***************************************************************************)
(* Texts as sequences of characters, for the comparisons the wrappers make *)
(* on titles: str.lower() and the substring test "a in b".                 *)
(***************************************************************************)
\* str.lower() on one character of the alphabet in use
LowerChar(c) ==
    CASE c = "A" -> "a" [] c = "E" -> "e" [] c = "I" -> "i" [] c = "L" -> "l"
      [] c = "Q" -> "q" [] c = "S" -> "s" [] c = "T" -> "t" [] c = "U" -> "u"
      [] c = "X" -> "x" [] OTHER -> c

\* str.lower()
Lower(t) == [n \in 1..Len(t) |-> LowerChar(t[n])]

\* needle in hay
Contains(needle, hay) ==
    \E k \in 0..(Len(hay) - Len(needle)) :
        \A n \in 1..Len(needle) : hay[k + n] = needle[n]

\* summaries of events and titles of tasks; the empty one is also what
\* .get("summary", "") gives for an item without the field
Summaries == { <<>>, <<"a">>, <<"A">>, <<"b">>, <<"a", "b">>, <<"A", "b">>, <<"b", "a">> }

\* most upcoming events on the calendar
MaxEvents == 2

EventLists == UNION {[1..n -> Summaries] : n \in 0..MaxEvents}

\* the "title" member of the parsed response: missing, null, or a string
TitleValues ==
    { [k |-> "missing", s |-> <<>>], [k |-> "null", s |-> <<>>] }
    \cup { [k |-> "str", s |-> t] : t \in Summaries }

(***************************************************************************)
(* The delete action on the calendar: the delete branch of                 *)
(* calendar_agent.process_with_ai and of route_request, and                *)
(* delete_event_by_name, statement by statement.                           *)
(***************************************************************************)
CalDelDone(o) == caldel' = [caldel EXCEPT !.pc = "done", !.out = o]

\* an exception inside the try block: the except clause of the path taken
CalDelHandle(c, e) ==
    [c EXCEPT !.pc = "done", !.exc = e,
              !.out = IF HandlerOf(IF c.path = "router" THEN "router" ELSE "calendar") = "raw"
                        THEN "raw" ELSE "error"]

\* the parsed response names action delete (and service calendar in the router)
CalDelBegin ==
    /\ caldel.pc = "begin"
    /\ \E p \in {"calendar_agent", "router"}, ev \in EventLists, t \in TitleValues :
          caldel' = [caldel EXCEPT !.pc = "branch", !.path = p, !.before = ev, !.title = t]

\* calendar_agent: title = data.get("title", ""); if title: delete_event_by_name(...)
\* router: delete_event_by_name(services["calendar"], data.get("title"))
CalDelBranch ==
    /\ caldel.pc = "branch"
    /\ IF caldel.path = "calendar_agent"
         THEN IF caldel.title.k = "str" /\ caldel.title.s # <<>>
                THEN caldel' = [caldel EXCEPT !.pc = "list", !.arg = caldel.title]
                ELSE CalDelDone("which_event")
         ELSE caldel' = [caldel EXCEPT !.pc = "list",
                            !.arg = IF caldel.title.k = "str"
                                      THEN caldel.title
                                      ELSE [k |-> "null", s |-> <<>>]]

\* events = service.events().list(...).execute().get("items", [])
CalDelList ==
    /\ caldel.pc = "list"
    /\ LET c == [caldel EXCEPT !.calls = Append(@, "list")]
       IN  \/ caldel' = CalDelHandle(c, "HttpError")
           \/ caldel' = [c EXCEPT !.pc = "lower"]

\* event_name_lower = event_name.lower()
CalDelLower ==
    /\ caldel.pc = "lower"
    /\ IF caldel.arg.k # "str"
         THEN caldel' = CalDelHandle(caldel, "AttributeError")
         ELSE caldel' = [caldel EXCEPT !.pc = "scan", !.j = 1]

\* for event in events: if event_name_lower in event.get("summary", "").lower()
CalDelScan ==
    /\ caldel.pc = "scan"
    /\ IF caldel.j > Len(caldel.before)
         THEN CalDelDone("could_not_find")
         ELSE IF Contains(Lower(caldel.arg.s), Lower(caldel.before[caldel.j]))
                THEN caldel' = [caldel EXCEPT !.pc = "delete"]
                ELSE caldel' = [caldel EXCEPT !.j = @ + 1]

\* service.events().delete(..., eventId=event["id"]).execute(); return f"Deleted ..."
CalDelDelete ==
    /\ caldel.pc = "delete"
    /\ LET c == [caldel EXCEPT !.calls = Append(@, "delete")]
       IN  \/ caldel' = CalDelHandle(c, "HttpError")
           \/ caldel' = [c EXCEPT !.pc = "done", !.out = "deleted",
                                  !.deleted = @ \cup {caldel.j}]

\* the answer is printed and the next input is read
CalDelPrint ==
    /\ caldel.pc = "done"
    /\ caldel' = FreshCalDel

CalDelNext ==
    \/ CalDelBegin /\ UNCHANGED <<vars, cal, runs, jobs, turn, cred, tsk, shell, research>>
    \/ CalDelBranch /\ UNCHANGED <<vars, cal, runs, jobs, turn, cred, tsk, shell, research>>
    \/ CalDelList /\ UNCHANGED <<vars, cal, runs, jobs, turn, cred, tsk, shell, research>>
    \/ CalDelLower /\ UNCHANGED <<vars, cal, runs, jobs, turn, cred, tsk, shell, research>>
    \/ CalDelScan /\ UNCHANGED <<vars, cal, runs, jobs, turn, cred, tsk, shell, research>>
    \/ CalDelDelete /\ UNCHANGED <<vars, cal, runs, jobs, turn, cred, tsk, shell, research>>
    \/ CalDelPrint /\ UNCHANGED <<vars, cal, runs, jobs, turn, cred, tsk, shell, research>>

CalDelSpec == Init /\ [][CalDelNext]_allvars

(***************************************************************************)
(* The delete and complete actions of tasks_agent.process_with_ai, with    *)
(* get_task_by_index and get_task_by_title.                                *)
(***************************************************************************)
\* most tasks on the default list
MaxTasks == 2

TaskLists == UNION {[1..n -> Summaries] : n \in 0..MaxTasks}

\* the "index" member of the parsed response: missing, null, a JSON string,
\* or an integer around the range of the list
IndexValues ==
    { [k |-> "missing", n |-> 0], [k |-> "null", n |-> 0], [k |-> "str", n |-> 1] }
    \cup { [k |-> "int", n |-> v] : v \in (0 - 1)..(MaxTasks + 1) }

\* position of the first task whose title contains t, both in lower case;
\* 0 stands for None
FirstContaining(ts, t) ==
    LET hits == {p \in 1..Len(ts) : Contains(Lower(t), Lower(ts[p]))}
    IN  IF hits = {} THEN 0 ELSE CHOOSE p \in hits : \A q \in hits : p <= q

TaskDone(o) == tsk' = [tsk EXCEPT !.pc = "done", !.out = o]

\* except Exception as e: return f"Error: {str(e)}"
TaskHandle(c, e) == [c EXCEPT !.pc = "done", !.exc = e, !.out = "error"]

\* the parsed response names action delete or complete
TaskBegin ==
    /\ tsk.pc = "begin"
    /\ \E a \in {"delete", "complete"}, ts \in TaskLists, ix \in IndexValues, t \in TitleValues :
          tsk' = [tsk EXCEPT !.pc = "branch", !.action = a, !.tasks = ts,
                             !.index = ix, !.title = t]

\* delete: index = data.get("index", 1); task = get_task_by_index(service, index)
\* complete: if "index" in data: ... elif "title" in data: ... else: return "Need ..."
TaskBranch ==
    /\ tsk.pc = "branch"
    /\ IF tsk.action = "delete"
         THEN tsk' = [tsk EXCEPT !.pc = "list", !.by = "index",
                                 !.arg = IF tsk.index.k = "missing"
                                           THEN [k |-> "int", n |-> 1]
                                           ELSE tsk.index]
         ELSE IF tsk.index.k # "missing"
                THEN tsk' = [tsk EXCEPT !.pc = "list", !.by = "index", !.arg = tsk.index]
                ELSE IF tsk.title.k # "missing"
                       THEN tsk' = [tsk EXCEPT !.pc = "list", !.by = "title"]
                       ELSE TaskDone("need_index_or_title")

\* results = service.tasks().list(...).execute(); tasks = results.get("items", [])
TaskList ==
    /\ tsk.pc = "list"
    /\ LET c == [tsk EXCEPT !.calls = Append(@, "list")]
       IN  \/ tsk' = TaskHandle(c, "HttpError")
           \/ tsk' = [c EXCEPT !.pc = "pick"]

\* get_task_by_index: if index < 1 or index > len(tasks): return None;
\*                    return tasks[index - 1]
\* get_task_by_title: title_lower = title.lower(); first task containing it
TaskPick ==
    /\ tsk.pc = "pick"
    /\ IF tsk.by = "index"
         THEN IF tsk.arg.k # "int"
                THEN tsk' = TaskHandle(tsk, "TypeError")
                ELSE tsk' = [tsk EXCEPT !.pc = "test",
                                !.found = IF tsk.arg.n < 1 \/ tsk.arg.n > Len(tsk.tasks)
                                            THEN 0 ELSE tsk.arg.n]
         ELSE IF tsk.title.k # "str"
                THEN tsk' = TaskHandle(tsk, "AttributeError")
                ELSE tsk' = [tsk EXCEPT !.pc = "test",
                                !.found = FirstContaining(tsk.tasks, tsk.title.s)]

\* if task: return delete_task(...) / complete_task(...); return "Could not find that task."
TaskTest ==
    /\ tsk.pc = "test"
    /\ IF tsk.found # 0
         THEN tsk' = [tsk EXCEPT !.pc = "mutate"]
         ELSE TaskDone("could_not_find")

\* delete_task: tasks().delete(...).execute()
\* complete_task: tasks().get(...).execute(), then tasks().update(...).execute()
TaskMutate ==
    /\ tsk.pc = "mutate"
    /\ LET c == [tsk EXCEPT !.calls = Append(@, tsk.action)]
       IN  \/ tsk' = TaskHandle(c, "HttpError")
           \/ tsk' = [c EXCEPT !.pc = "done", !.out = tsk.action,
                               !.changed = @ \cup {tsk.found}]

\* the answer is printed and the next input is read
TaskPrint ==
    /\ tsk.pc = "done"
    /\ tsk' = FreshTask

TaskNext ==
    \/ TaskBegin /\ UNCHANGED <<vars, cal, runs, jobs, turn, cred, caldel, shell, research>>
    \/ TaskBranch /\ UNCHANGED <<vars, cal, runs, jobs, turn, cred, caldel, shell, research>>
    \/ TaskList /\ UNCHANGED <<vars, cal, runs, jobs, turn, cred, caldel, shell, research>>
    \/ TaskPick /\ UNCHANGED <<vars, cal, runs, jobs, turn, cred, caldel, shell, research>>
    \/ TaskTest /\ UNCHANGED <<vars, cal, runs, jobs, turn, cred, caldel, shell, research>>
    \/ TaskMutate /\ UNCHANGED <<vars, cal, runs, jobs, turn, cred, caldel, shell, research>>
    \/ TaskPrint /\ UNCHANGED <<vars, cal, runs, jobs, turn, cred, caldel, shell, research>>

TaskSpec == Init /\ [][TaskNext]_allvars

(***************************************************************************)
(* The interactive loop of main() in the nine domain agents and in the     *)
(* router: read a line, strip it, compare it in lower case with the quit   *)
(* words and the quick commands, and hand everything else to the AI.       *)
(***************************************************************************)
\* what the user may type between the blanks, as characters
TypedWords ==
    { <<>>,
      <<"q">>, <<"Q">>,
      <<"q", "u", "i", "t">>, <<"Q", "U", "I", "T">>, <<"Q", "u", "i", "t">>,
      <<"e", "x", "i", "t">>, <<"E", "x", "i", "t">>,
      <<"l", "i", "s", "t">>, <<"L", "I", "S", "T">>,
      <<"s", "t", "a", "t", "u", "s">>, <<"S", "t", "a", "t", "u", "s">>,
      <<"?">>,
      <<"q", "q">>, <<"q", " ", "q">>, <<"q", "u", "i", "t", "s">>,
      <<"l", "i", "s", "t", " ", "a", "l", "l">> }

\* most blanks typed before and after the words
MaxPad == 1

Blanks(n) == [k \in 1..n |-> " "]

RECURSIVE Strip(_)
\* str.strip(): blanks removed at both ends
Strip(t) ==
    IF t = <<>> THEN <<>>
    ELSE IF Head(t) = " " THEN Strip(Tail(t))
    ELSE IF t[Len(t)] = " " THEN Strip(SubSeq(t, 1, Len(t) - 1))
    ELSE t

\* ["quit", "exit", "q"]
QuitWords == { <<"q", "u", "i", "t">>, <<"e", "x", "i", "t">>, <<"q">> }

\* the quick commands of agent a, of those the typed words can spell: "list"
\* in the nine domain agents; "status" and "?" in the router
QuickWords(a) ==
    IF a = "router"
      THEN { <<"s", "t", "a", "t", "u", "s">>, <<"?">> }
      ELSE { <<"l", "i", "s", "t">> }

\* the help command of the router prints a fixed text, without any API call
QuickReads(a, w) == IF a = "router" /\ w = <<"?">> THEN 0 ELSE 1

\* service = get_..._service() / services = get_all_services(); the except
\* clauses of main print the error and return; calendar_agent catches
\* FileNotFoundError only
ShellStart ==
    /\ shell.pc = "start"
    /\ \E a \in Agents :
          \/ shell' = [shell EXCEPT !.agent = a, !.pc = "prompt"]
          \/ shell' = [shell EXCEPT !.agent = a, !.pc = "exited", !.exc = "FileNotFoundError"]
          \/ shell' = [shell EXCEPT !.agent = a, !.exc = "RefreshError",
                                    !.pc = IF a = "calendar" THEN "crashed" ELSE "exited"]

\* user_input = input("You: ").strip(); except EOFError: break
ShellInput ==
    /\ shell.pc = "prompt"
    /\ \/ shell' = [shell EXCEPT !.pc = "exited", !.kind = "eof", !.submits = 0,
                                 !.reads = 0, !.typed = <<>>, !.left = 0, !.right = 0,
                                 !.line = <<>>, !.user_input = <<>>]
       \/ \E w \in TypedWords, l \in 0..MaxPad, r \in 0..MaxPad :
             shell' = [shell EXCEPT !.pc = "classify", !.kind = "none", !.submits = 0,
                                    !.reads = 0, !.typed = w, !.left = l, !.right = r,
                                    !.line = Blanks(l) \o w \o Blanks(r),
                                    !.user_input = Strip(Blanks(l) \o w \o Blanks(r))]

\* faulty variant: the quit words are compared without lower()
ShellClassify_CaseSensitive ==
    /\ shell.pc = "classify"
    /\ IF shell.user_input = <<>>
         THEN shell' = [shell EXCEPT !.kind = "empty", !.pc = "prompt"]
         ELSE IF shell.user_input \in QuitWords
                THEN shell' = [shell EXCEPT !.kind = "quit", !.pc = "exited"]
                ELSE IF Lower(shell.user_input) \in QuickWords(shell.agent)
                       THEN shell' = [shell EXCEPT !.kind = "quick", !.pc = "quick"]
                       ELSE shell' = [shell EXCEPT !.kind = "other", !.pc = "context"]

\* if not user_input: continue
\* if user_input.lower() in ["quit", "exit", "q"]: break
\* if user_input.lower() in [quick commands]: ...; continue
ShellClassify ==
    /\ shell.pc = "classify"
    /\ IF shell.user_input = <<>>
         THEN shell' = [shell EXCEPT !.kind = "empty", !.pc = "prompt"]
         ELSE IF Lower(shell.user_input) \in QuitWords
                THEN shell' = [shell EXCEPT !.kind = "quit", !.pc = "exited"]
                ELSE IF Lower(shell.user_input) \in QuickWords(shell.agent)
                       THEN shell' = [shell EXCEPT !.kind = "quick", !.pc = "quick"]
                       ELSE shell' = [shell EXCEPT !.kind = "other", !.pc = "context"]

\* print(list_...(service)); continue : a read of the Google API, which may raise
ShellQuick ==
    /\ shell.pc = "quick"
    /\ LET n == QuickReads(shell.agent, Lower(shell.user_input))
       IN  \/ shell' = [shell EXCEPT !.reads = @ + n, !.pc = "prompt"]
           \/ /\ n > 0
              /\ shell' = [shell EXCEPT !.reads = @ + n, !.pc = "crashed", !.exc = "HttpError"]

\* the context fetched before the prompt is built: outside the try block in
\* the domain agents, inside try / except in get_context_summary of the router
ShellContext ==
    /\ shell.pc = "context"
    /\ \/ shell' = [shell EXCEPT !.reads = @ + 1, !.pc = "call"]
       \/ /\ shell.agent # "router"
          /\ shell' = [shell EXCEPT !.reads = @ + 1, !.pc = "crashed", !.exc = "HttpError"]

\* ai_response = call_gumloop(prompt): one run, with its one submission; the
\* call is outside the try block, so what it raises ends the program
ShellCall ==
    /\ shell.pc = "call"
    /\ \/ shell' = [shell EXCEPT !.submits = @ + 1, !.pc = "answer"]
       \/ \E e \in CallErrors \cup {"AttributeError"} :
             shell' = [shell EXCEPT !.submits = @ + 1, !.pc = "crashed", !.exc = e]

\* the try block of process_with_ai / route_request, then print(response)
ShellAnswer ==
    /\ shell.pc = "answer"
    /\ shell' = [shell EXCEPT !.pc = "prompt"]

ShellNext ==
    \/ ShellStart /\ UNCHANGED <<vars, cal, runs, jobs, turn, cred, caldel, tsk, research>>
    \/ ShellInput /\ UNCHANGED <<vars, cal, runs, jobs, turn, cred, caldel, tsk, research>>
    \/ ShellClassify /\ UNCHANGED <<vars, cal, runs, jobs, turn, cred, caldel, tsk, research>>
    \/ ShellQuick /\ UNCHANGED <<vars, cal, runs, jobs, turn, cred, caldel, tsk, research>>
    \/ ShellContext /\ UNCHANGED <<vars, cal, runs, jobs, turn, cred, caldel, tsk, research>>
    \/ ShellCall /\ UNCHANGED <<vars, cal, runs, jobs, turn, cred, caldel, tsk, research>>
    \/ ShellAnswer /\ UNCHANGED <<vars, cal, runs, jobs, turn, cred, caldel, tsk, research>>

ShellSpec == Init /\ [][ShellNext]_allvars

(***************************************************************************)
(* The research script main.py: main, start_pipeline and get_pipeline_run. *)
(***************************************************************************)
\* for _ in range(60)
ResearchBudget == 60

\* time.sleep(2)
ResearchInterval == 2

\* state = status.get("state", "unknown")
ResearchState(st) == DictGet(st, "state", Str("unknown"))

\* outputs = status.get("outputs", {}) ; outputs.items() exists on dicts only
ResearchOutputs(st) == DictGet(st, "outputs", EmptyObj)

\* result = start_pipeline(query); print(f"Pipeline started: {result}")
ResearchSubmit ==
    /\ research.pc = "submit"
    /\ LET c == [research EXCEPT !.log = Append(@, "submit")]
       IN  \/ \E e \in CallErrors : research' = [c EXCEPT !.pc = "raised", !.exc = e]
           \/ \E r \in SubmitResponses :
                 research' = [c EXCEPT !.result = r, !.pc = "test_run_id",
                                       !.printed = Append(@, "started")]

\* if "run_id" in result: run_id = result["run_id"] ... else: print(f"Response: {result}")
ResearchTestRunId ==
    /\ research.pc = "test_run_id"
    /\ IF HasRunId(research.result)
         THEN research' = [research EXCEPT !.run_id = research.result.f["run_id"],
                                           !.pc = "loop"]
         ELSE research' = [research EXCEPT !.pc = "exited",
                                           !.printed = Append(@, "response")]

\* for _ in range(60): the loop has no else clause and nothing follows it
ResearchLoopHead ==
    /\ research.pc = "loop"
    /\ IF research.i < ResearchBudget
         THEN research' = [research EXCEPT !.i = @ + 1, !.pc = "sleep"]
         ELSE research' = [research EXCEPT !.pc = "exited"]

\* time.sleep(2)
ResearchSleep ==
    /\ research.pc = "sleep"
    /\ research' = [research EXCEPT !.log = Append(@, "sleep"), !.pc = "poll"]

\* status = get_pipeline_run(run_id)
ResearchPoll ==
    /\ research.pc = "poll"
    /\ LET c == [research EXCEPT !.log = Append(@, "poll")]
       IN  \/ \E e \in CallErrors : research' = [c EXCEPT !.pc = "raised", !.exc = e]
           \/ \E st \in PollResponses : research' = [c EXCEPT !.status = st, !.pc = "check"]

\* print(f"Status: {state}"); if state == "DONE": print results; break
\* elif state in ["FAILED", "ERROR"]: print(f"Pipeline failed: {status}"); break
ResearchCheck ==
    /\ research.pc = "check"
    /\ LET st == ResearchState(research.status)
       IN  IF st = Str("DONE")
             THEN IF ResearchOutputs(research.status).k # "obj"
                    THEN research' = [research EXCEPT !.pc = "raised", !.exc = "AttributeError",
                                                      !.printed = Append(@, "results_header")]
                    ELSE research' = [research EXCEPT !.pc = "exited",
                                                      !.printed = Append(@, "results")]
             ELSE IF st \in {Str("FAILED"), Str("ERROR")}
                    THEN research' = [research EXCEPT !.pc = "exited",
                                                      !.printed = Append(@, "failed")]
                    ELSE research' = [research EXCEPT !.pc = "loop"]

ResearchNext ==
    \/ ResearchSubmit /\ UNCHANGED <<vars, cal, runs, jobs, turn, cred, caldel, tsk, shell>>
    \/ ResearchTestRunId /\ UNCHANGED <<vars, cal, runs, jobs, turn, cred, caldel, tsk, shell>>
    \/ ResearchLoopHead /\ UNCHANGED <<vars, cal, runs, jobs, turn, cred, caldel, tsk, shell>>
    \/ ResearchSleep /\ UNCHANGED <<vars, cal, runs, jobs, turn, cred, caldel, tsk, shell>>
    \/ ResearchPoll /\ UNCHANGED <<vars, cal, runs, jobs, turn, cred, caldel, tsk, shell>>
    \/ ResearchCheck /\ UNCHANGED <<vars, cal, runs, jobs, turn, cred, caldel, tsk, shell>>

ResearchSpec == Init /\ [][ResearchNext]_allvars

\* the caller is blocked in the call and every network call returns, so the
\* run keeps taking its next statement
FairSpec == Spec /\ WF_allvars(Next)

(***************************************************************************)
(* Properties of one run.                                                  *)
(***************************************************************************)
\* the text the caller sees on every failure path
FailedText == Str("AI request failed")

\* the submission body carries no run_id field
NoRunIdField == result # Unset /\ "run_id" \notin DOMAIN result.f

\* the latest status body has state DONE / a failure state
SawDone == status # Unset /\ StateOf(status) = Str("DONE")

SawFailure == status # Unset /\ StateOf(status) \in {Str("FAILED"), Str("ERROR")}

\* the latest status body is {"state": ..., "outputs": {"output": v, ...}}
HasPayload ==
    /\ status # Unset
    /\ "outputs" \in DOMAIN status.f
    /\ status.f["outputs"].k = "obj"
    /\ "output" \in DOMAIN status.f["outputs"].f

Payload == status.f["outputs"].f["output"]

\* C1: a submission response without a run_id field makes the run return
\* "AI request failed", and no status poll is ever issued in such a run.
C1_NoRunIdFailsWithoutPolling ==
    NoRunIdField =>
        /\ polls = 0
        /\ pc \in {"test_run_id", "returned"}
        /\ pc = "returned" => (ret = FailedText /\ exc = "none")

C1_Witness ==
    /\ pc = "returned"
    /\ result = Obj([error |-> Str("bad request")])
    /\ ret = FailedText
    /\ polls = 0

\* C2: with a run_id, a first status response DONE carrying outputs.output = v
\* makes the run return exactly v, and that poll is the only one of the run.
C2_FirstPollDoneReturnsPayload ==
    (SawDone /\ HasPayload /\ nonTerm = 0) =>
        /\ polls = 1
        /\ pc \in {"check", "returned"}
        /\ pc = "returned" => (ret = Payload /\ exit = "done")

C2_Witness ==
    /\ pc = "returned"
    /\ result = Obj([run_id |-> Str("abc")])
    /\ status = Obj([state |-> Str("DONE"), outputs |-> Obj([output |-> Str("hello")])])
    /\ ret = Str("hello")
    /\ polls = 1

\* C3: when N-1 non-terminal status responses are followed by a DONE one,
\* N in 1..30, the run has made exactly N polls and returns through the DONE
\* branch with the payload of that response, never through the timeout; this
\* includes N = 30, the last attempt of the budget.
C3_PendingThenDone ==
    SawDone =>
        /\ polls = nonTerm + 1
        /\ polls \in 1..30
        /\ pc \in {"check", "returned", "raised"}
        /\ pc = "returned" => exit = "done"
        /\ HasPayload => (pc # "raised" /\ (pc = "returned" => ret = Payload))

C3_Witness ==
    /\ pc = "returned"
    /\ SawDone
    /\ nonTerm = 29
    /\ polls = 30
    /\ exit = "done"
    /\ ret = Str("hello")

\* C4: once a status response has state FAILED or ERROR the run returns
\* "AI request failed", and from then on no further poll is issued.
C4_FailureStopsPolling ==
    /\ [](SawFailure =>
            /\ pc \in {"check", "returned"}
            /\ pc = "returned" => (ret = FailedText /\ exit = "remote_failure"))
    /\ [][SawFailure => (log' = log /\ status' = status)]_vars

C4_Witness ==
    /\ pc = "returned"
    /\ status = Obj([state |-> Str("ERROR")])
    /\ nonTerm = 2
    /\ polls = 3
    /\ ret = FailedText

\* C5: when no status response is terminal, the run stops after exactly 30
\* polls and returns the timeout failure "AI request failed".
C5_TimeoutAfterBudget ==
    /\ nonTerm <= 30
    /\ nonTerm = 30 =>
          /\ polls = 30
          /\ pc \in {"check", "loop", "returned"}
          /\ pc = "returned" => (exit = "timeout" /\ ret = FailedText)
    /\ exit = "timeout" => (polls = 30 /\ nonTerm = 30)

C5_Witness ==
    /\ pc = "returned"
    /\ exit = "timeout"
    /\ nonTerm = 30
    /\ polls = 30
    /\ ret = FailedText

\* C6: a status response DONE without an outputs field makes the run return
\* the text "No response" through the DONE branch, and polling stops.
C6_DoneWithoutOutputs ==
    (SawDone /\ "outputs" \notin DOMAIN status.f) =>
        /\ polls = nonTerm + 1
        /\ pc \in {"check", "returned"}
        /\ pc = "returned" => (ret = Str("No response") /\ exit = "done")

C6_Witness ==
    /\ pc = "returned"
    /\ status = Obj([state |-> Str("DONE")])
    /\ ret = Str("No response")
    /\ exit = "done"

\* C7: a run that returned after a submission without run_id, after a FAILED
\* or ERROR status, or after 30 non-terminal statuses returned the one string
\* "AI request failed", whichever of the three it was.
C7_OneFailureString ==
    (pc = "returned" /\ (NoRunIdField \/ SawFailure \/ nonTerm = 30)) =>
        ret = FailedText

C7_Witness ==
    /\ pc = "returned"
    /\ nonTerm = 30
    /\ ~SawFailure
    /\ ret = FailedText

\* C8: when the submit call or a poll call fails at transport level, the run
\* ends by raising that error (no string is returned), and no network call
\* or sleep of the run follows.
C8_TransportErrorPropagates ==
    /\ [](netErr # "none" =>
            /\ pc = "raised"
            /\ exc = netErr
            /\ ret = Unset
            /\ exit = "none")
    /\ [][netErr # "none" => log' = log]_vars

C8_Witness ==
    /\ pc = "raised"
    /\ netErr = "ConnectionError"
    /\ exc = "ConnectionError"
    /\ polls = 2
    /\ ret = Unset

\* C9: in every state of a run the submit request has been issued at most
\* once, exactly once as soon as the run is past the submit statement, and at
\* most 30 poll requests have been issued.
C9_OneSubmitAtMostThirtyPolls ==
    /\ submits <= 1
    /\ pc # "submit" => submits = 1
    /\ polls <= 30

C9_Witness ==
    /\ pc = "returned"
    /\ submits = 1
    /\ polls = 30

\* C10 as stated: the run sleeps only after a non-terminal status, so a run
\* that returned has slept once per non-terminal status response.
C10_SleepAfterPending ==
    pc = "returned" => sleeps = nonTerm

\* C10 amended: each attempt sleeps first and queries the status next, so
\* every poll in the run directly follows a sleep, no two sleeps are adjacent,
\* and a finished run has slept exactly once per poll request, the first poll
\* included.
C10_SleepBeforeEveryPoll ==
    /\ \A j \in 1..Len(log) :
          /\ log[j] = "poll" => (j > 1 /\ log[j - 1] = "sleep")
          /\ log[j] = "sleep" => (j > 1 /\ log[j - 1] # "sleep")
    /\ pc \in {"returned", "raised"} => sleeps = polls
    /\ pc = "poll" <=> sleeps = polls + 1

C10_Witness ==
    /\ pc = "returned"
    /\ exit = "done"
    /\ nonTerm = 0
    /\ polls = 1
    /\ sleeps = 1

\* C11: the time a run has spent sleeping never exceeds 60 units (30 pauses
\* of 2 units), and whatever follows a poll in the run is exactly one sleep
\* and then the next poll.
C11_SleepTimeBounded ==
    /\ slept = 2 * sleeps
    /\ slept <= 60
    /\ \A j \in 1..(Len(log) - 1) :
          /\ log[j] = "poll" => log[j + 1] = "sleep"
          /\ log[j] = "sleep" => log[j + 1] = "poll"

C11_Witness ==
    /\ pc = "returned"
    /\ polls = 30
    /\ sleeps = 30
    /\ slept = 60

\* C12: every run eventually returns or raises, having issued at most one
\* submit and at most 30 polls.
C12_RunTerminates ==
    <>(pc \in {"returned", "raised"} /\ submits <= 1 /\ polls <= 30)

C12_Witness ==
    /\ pc = "raised"
    /\ exc = "AttributeError"
    /\ submits = 1
    /\ polls = 30

\* the job the remote runner started for the submission of run r
OwnJob(r) == CHOOSE k \in 1..Len(jobs) : JobId(k) = runs[r].result.f["run_id"]

HasOwnJob(r) ==
    /\ runs[r].result # Unset
    /\ "run_id" \in DOMAIN runs[r].result.f
    /\ \E k \in 1..Len(jobs) : JobId(k) = runs[r].result.f["run_id"]

\* C13: with two runs interleaved in any order, every status request of a run
\* carries the run_id of that run's own submission, two runs never hold the
\* same run_id, a run returns the output (or the failure) of its own job
\* only, and a step of one run leaves the locals of the other untouched.
C13_RunsIndependent ==
    /\ [](\A r \in Runs :
            /\ Len(runs[r].sentIds) > 0 => HasOwnJob(r)
            /\ \A k \in 1..Len(runs[r].sentIds) :
                  runs[r].sentIds[k] = runs[r].result.f["run_id"]
            /\ \A q \in Runs \ {r} :
                  (HasOwnJob(r) /\ HasOwnJob(q)) => OwnJob(r) # OwnJob(q)
            /\ (runs[r].pc = "returned" /\ runs[r].exit = "done") =>
                  (jobs[OwnJob(r)] = "DONE" /\ runs[r].ret = JobOutput(OwnJob(r)))
            /\ (runs[r].pc = "returned" /\ runs[r].exit = "remote_failure") =>
                  jobs[OwnJob(r)] = "FAILED")
    /\ [][\A r \in Runs : runs'[r] # runs[r] =>
            (jobs' = jobs \/ ~HasOwnJob(r)) /\ \A q \in Runs \ {r} : runs'[q] = runs[q]]_allvars

C13_Witness ==
    /\ runs[1].pc = "returned"
    /\ runs[2].pc = "returned"
    /\ runs[1].result = Obj([run_id |-> Str("job2")])
    /\ runs[1].ret = Str("output of job2")
    /\ Len(runs[1].sentIds) = 2
    /\ runs[2].result = Obj([run_id |-> Str("job1")])
    /\ runs[2].exit = "remote_failure"

\* C14: every poll request of a run comes after the submission response and
\* carries the run_id value of that response, and the run_id variable never
\* changes once it is set.
C14_OneHandlePerRun ==
    /\ [](polls > 0 =>
            /\ log[1] = "submit"
            /\ result # Unset
            /\ "run_id" \in DOMAIN result.f
            /\ Len(sentIds) = polls
            /\ \A k \in 1..Len(sentIds) : sentIds[k] = result.f["run_id"])
    /\ [](run_id # Unset => (result # Unset /\ run_id = result.f["run_id"]))
    /\ [][run_id # Unset => run_id' = run_id]_vars

C14_Witness ==
    /\ pc = "returned"
    /\ result = Obj([run_id |-> Str("abc")])
    /\ polls = 3
    /\ sentIds = <<Str("abc"), Str("abc"), Str("abc")>>

\* C19: a status whose state is not exactly DONE, FAILED or ERROR (missing,
\* unknown, or "done" in lower case) returns nothing on that attempt: the
\* inspection leads back to the loop head, which starts the next attempt
\* while the budget lasts.
C19_OtherStatesArePending ==
    /\ [][(pc = "check" /\ StateOf(status) \notin TerminalStates) =>
            (pc' = "loop" /\ ret' = Unset /\ exc' = "none")]_vars
    /\ [][(pc = "loop" /\ polls < 30) => pc' = "sleep"]_vars
    /\ []((pc = "returned" /\ status # Unset /\ StateOf(status) \notin TerminalStates) =>
            (exit = "timeout" /\ polls = 30))

C19_Witness ==
    /\ pc = "sleep"
    /\ status = Obj([state |-> Str("done"), outputs |-> Obj([output |-> Str("hello")])])
    /\ polls = 1
    /\ ret = Unset

\* C20: a run that obtained a run_id and has returned either saw a terminal
\* state in its latest status or has made exactly 30 polls; a return after
\* fewer than 30 polls always follows a terminal status.
C20_NoEarlyExit ==
    (pc = "returned" /\ run_id # Unset) =>
        /\ polls >= 1
        /\ status # Unset
        /\ StateOf(status) \in TerminalStates \/ polls = 30
        /\ polls < 30 => StateOf(status) \in TerminalStates

C20_Witness ==
    /\ pc = "returned"
    /\ run_id = Str("abc")
    /\ polls = 29
    /\ StateOf(status) = Str("FAILED")

\* C15: fed the same submission answer and the same status answers, the copy
\* in calendar_agent.py and the one in google_auth.py are at the same
\* statement after every step, have issued the same submit / sleep / poll
\* steps with the same run ids, and end with the same result or exception.
C15_CopiesEquivalent ==
    /\ cal.pc = pc
    /\ cal.log = log
    /\ cal.sentIds = sentIds
    /\ cal.i = i
    /\ cal.ret = ret
    /\ cal.exc = exc
    /\ cal.exit = exit

C15_Witness ==
    /\ pc = "returned"
    /\ cal.pc = "returned"
    /\ cal.exit = "timeout"
    /\ cal.ret = Str("AI request failed")
    /\ Len(cal.log) = 61
    /\ cal.log = log

\* the finished turn had an AI response that is not well-formed JSON: the
\* pattern found nothing in it, or what it found does not parse
NoJsonMatch == turn.pc = "done" /\ Search(turn.agent, turn.text) = <<>>

JsonParseFailed ==
    /\ turn.pc = "done"
    /\ Search(turn.agent, turn.text) # <<>>
    /\ ~JsonLoadsOk(Search(turn.agent, turn.text))

NoMutation == \A n \in 1..Len(turn.calls) : ~turn.calls[n].mutates

\* C16 as stated: in every agent and in the router a response that is not
\* well-formed JSON ends the turn with the raw AI text, unchanged, and no
\* mutating Google API call.
C16_MalformedReturnsRawText ==
    (NoJsonMatch \/ JsonParseFailed) =>
        turn.out = RawText(turn.text) /\ NoMutation

\* C16: a response without a brace-delimited match ends the turn with the raw
\* AI text in every agent and in the router; a match that fails to parse ends
\* it with the raw AI text in the calendar agent only, and with the error
\* string built from the parser's exception in the other eight agents and the
\* router; in all these cases no Google API call is made.
C16_MalformedRawOrErrorText ==
    /\ NoJsonMatch => turn.out = RawText(turn.text) /\ turn.calls = <<>>
    /\ JsonParseFailed =>
          /\ turn.calls = <<>>
          /\ turn.raised = "JSONDecodeError"
          /\ turn.out = IF turn.agent = "calendar"
                          THEN RawText(turn.text)
                          ELSE ErrorText("JSONDecodeError")

C16_Witness ==
    /\ JsonParseFailed
    /\ turn.agent = "gmail"
    /\ turn.text = <<"x", "{", "x", "}">>
    /\ turn.out = ErrorText("JSONDecodeError")

\* C17: in the router, a parsed response naming a (service, action) pair that
\* the router's prompt offers is dispatched to a wrapper: a branch is taken
\* and the turn does not end with the raw AI text.
C17_OfferedPairsDispatched ==
    ( /\ turn.pc = "done"
      /\ turn.agent = "router"
      /\ JsonLoadsOk(turn.group)
      /\ <<turn.service, turn.action>> \in PromptPairs )
    => turn.branch.wrapper # "none" /\ turn.out.k # "raw"

\* the wrapper chosen by the dispatch was called and raised
WrapperRaised ==
    /\ turn.pc = "done"
    /\ turn.at = "wrapper"
    /\ turn.calls # <<>>
    /\ turn.calls[Len(turn.calls)].fn = turn.branch.wrapper

\* C18: in every agent, when the wrapper chosen by the dispatch raises, the
\* turn ends with an error string, never with the raw AI text, and the
\* interactive loop goes on to the next input.
C18_WrapperFailureReported ==
    WrapperRaised =>
        /\ turn.out = ErrorText(turn.raised)
        /\ ENABLED TurnPrint

\* the outputs field of the latest status has one of these shapes: absent,
\* empty object, object without an output key, or null
OutputsShapeListed ==
    \/ ~DictHas(status, "outputs")
    \/ status.f["outputs"] = EmptyObj
    \/ status.f["outputs"] = Null
    \/ status.f["outputs"].k = "obj" /\ ~DictHas(status.f["outputs"], "output")

\* C22: once the run has acted on a status whose state is DONE and whose
\* outputs field is absent, an empty object, an object without an output
\* key, or null, the call has returned a text value and has not raised.
C22_DoneNeverRaises ==
    ( /\ pc \in {"returned", "raised"}
      /\ status # Unset
      /\ IsDone(status)
      /\ OutputsShapeListed )
    => pc = "returned" /\ ret.k = "str"

\* C23: every poll request carries a usable identifier (neither null nor
\* empty), and a submission answer whose run_id is null or empty leads to no
\* poll at all.
C23_PollsOnlyUsableId ==
    /\ \A n \in 1..Len(sentIds) : sentIds[n] \notin {Null, Str("")}
    /\ ( /\ result # Unset
         /\ HasRunId(result)
         /\ result.f["run_id"] \in {Null, Str("")} ) => polls = 0

\* C24: when the AI response is one of the fixed strings of call_gumloop
\* ("AI request failed", "No response"), the turn of every agent and of the
\* router ends with that text unchanged and without any Google API call.
C24_FixedStringsFailClosed ==
    \A v \in {RemoteFailureText, FallThroughText, NoResponseText} :
        (turn.pc = "done" /\ turn.text = TokensOf(v)) =>
            /\ turn.out = RawText(TokensOf(v))
            /\ turn.calls = <<>>
            /\ turn.raised = "none"

C24_Witness ==
    /\ turn.pc = "done"
    /\ turn.agent = "tasks"
    /\ turn.text = TokensOf(NoResponseText)
    /\ turn.out = RawText(TokensOf(NoResponseText))

RECURSIVE SumWrites(_)
\* creating, changing, sending or deleting API requests executed by the calls
SumWrites(cs) == IF cs = <<>> THEN 0 ELSE cs[1].writes + SumWrites(Tail(cs))

\* calls of the turn to a wrapper that creates, changes, sends or deletes
MutatingCalls == {n \in 1..Len(turn.calls) : turn.calls[n].mutates}

\* the services for which the router tests the action
KnownServices == {b.service : b \in {c \in RouterBranches : c.action # "any"}}

\* the finished router turn parsed a known service with an action for which
\* the router has no branch
RouterUnhandled ==
    /\ turn.pc = "done"
    /\ turn.agent = "router"
    /\ JsonLoadsOk(turn.group)
    /\ turn.service \in KnownServices
    /\ ~\E b \in RouterBranches : b.service = turn.service /\ b.action = turn.action

\* C28 as stated: per turn at most one creating, sending, changing or
\* deleting API request is made, and a known service with an unhandled
\* action gives no such request and the raw AI text.
C28_AtMostOneMutatingRequest ==
    /\ SumWrites(turn.calls) <= 1
    /\ RouterUnhandled => SumWrites(turn.calls) = 0 /\ turn.out = RawText(turn.text)

\* C28: per turn at most one branch is taken and at most one wrapper that
\* creates, sends, changes or deletes is called; it executes one such API
\* request, except add_title_slide of the slides agent, which executes up to
\* three; a known service with an action the router does not handle gives no
\* call at all and the raw AI text.
C28_AtMostOneMutatingWrapper ==
    /\ Cardinality(MutatingCalls) <= 1
    /\ SumWrites(turn.calls) <= (IF turn.branch.wrapper = "add_title_slide" THEN 3 ELSE 1)
    /\ turn.branch.wrapper = "add_title_slide" => turn.agent = "slides"
    /\ RouterUnhandled => turn.calls = <<>> /\ turn.out = RawText(turn.text)

C28_Witness ==
    /\ RouterUnhandled
    /\ turn.service = "sheets"
    /\ turn.action = "append"
    /\ turn.calls = <<>>
    /\ turn.out = RawText(<<"{", "m", "}">>)

\* the call has ended, by return or by exception
CredEnded == cred.pc \in {"returned", "raised"}

\* the credentials loaded from the token file were absent or not valid
LoadedUnusable == cred.loaded \in {"none", "expired_refreshable", "expired", "invalid"}

FirstMatch(ev, t) ==
    {p \in 1..Len(ev) :
        /\ Contains(Lower(t), Lower(ev[p]))
        /\ \A q \in 1..(p - 1) : ~Contains(Lower(t), Lower(ev[q]))}

\* C25: a delete action whose title is empty or missing deletes no event,
\* through the calendar agent and through the router; and a delete action
\* removes at most one event, the first whose summary contains the title
\* without regard to case.
C25_EmptyTitleDeletesNothing ==
    /\ (caldel.title.k = "missing" \/ caldel.title.s = <<>>) => caldel.deleted = {}
    /\ Cardinality(caldel.deleted) <= 1
    /\ caldel.deleted # {} => caldel.deleted = FirstMatch(caldel.before, caldel.title.s)

\* the task the parsed response identifies: the one at its index, or, for a
\* complete action without index, the first whose title contains its title
Identified ==
    IF tsk.index.k = "int"
      THEN {tsk.index.n} \cap (1..Len(tsk.tasks))
      ELSE IF tsk.action = "complete" /\ tsk.index.k = "missing" /\ tsk.title.k = "str"
             THEN {FirstContaining(tsk.tasks, tsk.title.s)} \ {0}
             ELSE {}

\* C26: a delete or complete action changes at most one task, and only the
\* one the response identifies; an index outside 1..len(tasks) gives "Could
\* not find that task." and no change; a delete action without an index
\* deletes nothing.
C26_OnlyIdentifiedTaskChanged ==
    /\ Cardinality(tsk.changed) <= 1
    /\ tsk.changed \subseteq Identified
    /\ ( /\ tsk.pc = "done"
         /\ tsk.exc = "none"
         /\ tsk.index.k = "int"
         /\ tsk.index.n \notin 1..Len(tsk.tasks) )
       => tsk.out = "could_not_find" /\ tsk.changed = {}
    /\ (tsk.action = "delete" /\ tsk.index.k = "missing") => tsk.changed = {}

\* what was typed, whatever the blanks around it: nothing; a quit word in
\* some mix of cases; a quick command of the agent in some mix of cases
TypedEmpty == shell.typed = <<>>

TypedQuit ==
    shell.typed \in { <<"q">>, <<"Q">>, <<"q", "u", "i", "t">>, <<"Q", "U", "I", "T">>,
                      <<"Q", "u", "i", "t">>, <<"e", "x", "i", "t">>, <<"E", "x", "i", "t">> }

TypedQuick ==
    IF shell.agent = "router"
      THEN shell.typed \in { <<"s", "t", "a", "t", "u", "s">>, <<"S", "t", "a", "t", "u", "s">>,
                             <<"?">> }
      ELSE shell.typed \in { <<"l", "i", "s", "t">>, <<"L", "I", "S", "T">> }

\* a line has been read and dealt with: the loop is back at the prompt or over
TurnOver == shell.kind # "none" /\ shell.pc \in {"prompt", "exited"}

\* C27: an empty line and a quick command start no AI job; any other line
\* that is not a quit word starts exactly one job before the next prompt;
\* a quit word in any mix of cases, and the end of input, end the loop
\* without a job.
C27_OneJobPerOtherInput ==
    /\ shell.submits <= 1
    /\ (shell.kind # "eof" /\ (TypedEmpty \/ TypedQuick)) =>
          shell.submits = 0 /\ shell.pc \notin {"context", "call", "answer"}
    /\ (shell.kind # "eof" /\ TypedQuit) =>
          shell.submits = 0 /\ shell.pc \in {"classify", "exited"}
    /\ shell.kind = "eof" => shell.pc = "exited" /\ shell.submits = 0
    /\ (TurnOver /\ shell.kind # "eof" /\ ~TypedEmpty /\ ~TypedQuick /\ ~TypedQuit) =>
          shell.submits = 1 /\ shell.pc = "prompt"
    /\ shell.pc = "exited" /\ shell.kind # "none" => shell.kind \in {"quit", "eof"}

C27_Witness ==
    /\ shell.pc = "prompt"
    /\ shell.agent = "router"
    /\ shell.typed = <<"l", "i", "s", "t">>
    /\ shell.kind = "other"
    /\ shell.submits = 1

\* polls made by the research script so far
ResearchPolls == Len(SelectSeq(research.log, LAMBDA e : e = "poll"))

\* what the script has told the user about the outcome
ResearchReported ==
    \E n \in 1..Len(research.printed) :
        research.printed[n] \in {"results", "failed", "response"}

\* C29: the research script polls only after a submission answer holding
\* run_id, polls at most 60 times, sleeps before each poll, stops at the
\* first DONE, FAILED or ERROR, and whenever it has ended, also after 60
\* polls without a terminal state, it has reported results or a failure.
C29_ResearchReportsOutcome ==
    /\ ResearchPolls > 0 => HasRunId(research.result)
    /\ ResearchPolls <= 60
    /\ \A n \in 1..Len(research.log) :
          research.log[n] = "poll" => (n > 1 /\ research.log[n - 1] = "sleep")
    /\ ( /\ research.pc \in {"loop", "sleep", "poll"}
         /\ research.status # Unset )
       => ResearchState(research.status) \notin TerminalStates
    /\ research.pc = "exited" => ResearchReported

=============================================================================
